---- MODULE Spec2Model ----
(***************************************************************************)
(* Model of the Hansard retrieval-and-reconciliation pipeline of           *)
(* speechGather.py: the listing client (OpenAustraliaAPI._make_call,       *)
(* get_hansard, get_debates, get_hansard_by_date_range), fetch_full_speech,*)
(* the reconciliation loop of export_speeches_to_csv and sanitize_text,    *)
(* with the variants of test.py (export without headers or date filter)    *)
(* and of clean.py (sanitize_text over str(text)).                         *)
(*                                                                         *)
(* Python strings are sequences of one-character strings.  A value that    *)
(* may be None (a dictionary key that may be absent) is None or Some(v).   *)
(* A date string "Y-M-D" is the triple <<Y, M, D>> of its numeric fields.  *)
(***************************************************************************)
EXTENDS Integers, Sequences, FiniteSets, TLC

VARIABLES
    pc,              \* position of the running call
    call,            \* the call under way: [fn, ...] with its arguments
    server_rows,     \* the rows the remote API holds for the query
    hansard_data,    \* get_hansard_by_date_range: what get_hansard returned
    hansard_entries, \* result of get_hansard_by_date_range
    idx,             \* number of entries the loop has finished
    pending,         \* Some(URL) of the detail request in flight, or None
    speeches,        \* export_speeches_to_csv: the list `speeches`
    requests,        \* every HTTP request issued so far, in order
    inflight,        \* number of HTTP requests awaiting their response
    fetch_log,       \* per entry: Some([val, failed]) of its fetch_full_speech call, or None
    trunc_log,       \* per entry: value of the truncation test at line 488
    raised,          \* an exception escaped the call
    api_key,         \* OpenAustraliaAPI.api_key, set by the constructor
    listing_resp,    \* Some(response the listing request met), or None
    made_call,       \* Some([exc, status, val]): how _make_call ended, or None
    returned,        \* Some(value a client method called on its own returned)
    san_log,         \* the calls of sanitize_text so far: [arg, out]
    server_page,     \* the page the URL serves to fetch_full_speech called on its own, packed
    written          \* Some(rows written to the output file), or None

\* the variables of the listing client and of the text normalizer
client_vars == <<api_key, listing_resp, made_call, returned>>

vars == <<pc, call, server_rows, hansard_data, hansard_entries, idx, pending, speeches,
          requests, inflight, fetch_log, trunc_log, raised, client_vars, san_log,
          server_page, written>>

-----------------------------------------------------------------------------
(* Bounds of the model *)

\* most rows in one listing response given to the reconciliation pipeline
MaxRecords == 2
\* most rows in one listing response given to the date filter alone
MaxRangeRows == 2

\* rows in the listing a direct client call receives
MaxClientRows == 1

\* rows in the listing when both scripts are run
MaxScriptRows == 1

\* div elements in a detail page handed to fetch_full_speech
MaxDivs == 2

\* rows in the listing of a run that may be interrupted
MaxCancelRows == 2

\* characters in a text handed to sanitize_text
MaxTextLen == 2

\* times sanitize_text is applied in a row, each time to its last result
MaxApplications == 2
\* longest free tail of a body in the truncation-heuristic domain
MaxTail == 3
\* spread of body lengths examined on each side of the threshold
LenSpread == 1

-----------------------------------------------------------------------------
(* Python values *)

None == <<>>
Some(v) == <<v>>

\* dict.get(key, default) on a field that may be absent
Get(opt, default) == IF opt = None THEN default ELSE opt[1]

\* str * n for a one-character string
Rep(c, n) == [k \in 1..n |-> c]

\* str.endswith
EndsWith(s, t) ==
    /\ Len(s) >= Len(t)
    /\ \A j \in 1..Len(t) : s[Len(s) - Len(t) + j] = t[j]

\* str.startswith
StartsWith(s, t) ==
    /\ Len(s) >= Len(t)
    /\ \A j \in 1..Len(t) : s[j] = t[j]

\* the `in` operator on strings
Contains(s, t) ==
    \E k \in 1..(Len(s) - Len(t) + 1) : \A j \in 1..Len(t) : s[k + j - 1] = t[j]

\* characters str.strip and str.split treat as whitespace
Whitespace == {" ", "\t", "\n"}

\* the first position from k on, and the last position up to k, that holds
\* no whitespace (Len(s) + 1 and 0 when there is none)
RECURSIVE FirstText(_, _)
FirstText(s, k) ==
    IF k > Len(s) THEN k
    ELSE IF s[k] \notin Whitespace THEN k ELSE FirstText(s, k + 1)

RECURSIVE LastText(_, _)
LastText(s, k) ==
    IF k < 1 THEN k
    ELSE IF s[k] \notin Whitespace THEN k ELSE LastText(s, k - 1)

\* str.strip()
Strip(s) == SubSeq(s, FirstText(s, 1), LastText(s, Len(s)))

\* what ' '.join(s.split()) leaves of the characters lo..hi of a stripped s:
\* a whitespace character just before a word becomes the one space, any
\* other whitespace character goes
RECURSIVE CollapseRange(_, _, _)
CollapseRange(s, lo, hi) ==
    IF lo > hi THEN <<>>
    ELSE IF lo = hi
    THEN IF s[lo] \in Whitespace
         THEN IF lo < Len(s) /\ s[lo + 1] \notin Whitespace THEN <<" ">> ELSE <<>>
         ELSE <<s[lo]>>
    ELSE LET mid == (lo + hi) \div 2
         IN  CollapseRange(s, lo, mid) \o CollapseRange(s, mid + 1, hi)

\* ' '.join(s.split()) : runs of whitespace become one space, ends trimmed
CollapseFrom(s, k) == CollapseRange(s, k, Len(s))

JoinSplit(s) == CollapseFrom(Strip(s), 1)

\* truthiness of a value that is a string or None
Truthy(opt) == opt /= None /\ opt[1] /= <<>>

\* A long text is kept in the state as its runs: "aaab" is the sequence of
\* [ch |-> "a", n |-> 3] and [ch |-> "b", n |-> 1].  The program's functions
\* are applied to the text itself.
RECURSIVE PackRange(_, _, _)
PackRange(s, lo, hi) ==
    IF lo > hi THEN <<>>
    ELSE IF lo = hi THEN <<[ch |-> s[lo], n |-> 1]>>
    ELSE LET mid == (lo + hi) \div 2
             l == PackRange(s, lo, mid)
             r == PackRange(s, mid + 1, hi)
         IN  IF l[Len(l)].ch = r[1].ch
             THEN SubSeq(l, 1, Len(l) - 1)
                  \o <<[ch |-> r[1].ch, n |-> l[Len(l)].n + r[1].n]>> \o Tail(r)
             ELSE l \o r

Pack(s) == PackRange(s, 1, Len(s))

RECURSIVE Unpack(_)
Unpack(runs) ==
    IF runs = <<>> THEN <<>> ELSE Rep(runs[1].ch, runs[1].n) \o Unpack(Tail(runs))

\* a page with every text string packed, and back
PackPage(page) ==
    [d \in 1..Len(page) |->
        [attrs |-> page[d].attrs,
         strings |-> [k \in 1..Len(page[d].strings) |-> Pack(page[d].strings[k])]]]

UnpackPage(page) ==
    [d \in 1..Len(page) |->
        [attrs |-> page[d].attrs,
         strings |-> [k \in 1..Len(page[d].strings) |-> Unpack(page[d].strings[k])]]]

-----------------------------------------------------------------------------
(* Literals of the program *)

Sentinel ==
    <<"U","n","a","b","l","e"," ","t","o"," ","r","e","t","r","i","e","v","e",
      " ","f","u","l","l"," ","s","p","e","e","c","h",".">>

NoContent == <<"N","o"," ","c","o","n","t","e","n","t">>

NoUrlAvailable == <<"N","o"," ","U","R","L"," ","a","v","a","i","l","a","b","l","e">>

Ellipsis == <<".", ".", ".">>

EntityMarker == <<"&", "#">>

Threshold == 200

BaseOrigin ==
    <<"h","t","t","p","s",":","/","/","w","w","w",".","o","p","e","n","a","u",
      "s","t","r","a","l","i","a",".","o","r","g",".","a","u">>

Http == <<"h","t","t","p">>

UserAgent == "Mozilla/5.0 (Windows NT 10.0; Win64; x64) AppleWebKit/537.36 (KHTML, like Gecko) Chrome/87.0.4280.66 Safari/537.36"

ExportStart == <<2023, 12, 5>>

ExportEnd == <<2024, 12, 5>>

-----------------------------------------------------------------------------
(* The truncation heuristic *)

\* the condition of line 488 without its length test
IsTruncatedNoLength(body) ==
    EndsWith(body, Ellipsis) \/ Contains(body, EntityMarker)

\* the condition of line 488 without its "&#" test
IsTruncatedNoEntity(body) ==
    EndsWith(body, Ellipsis) \/ Len(body) < Threshold

\* the condition of line 488 with `<=` for `<`
IsTruncatedLeq(body) ==
    \/ EndsWith(body, Ellipsis)
    \/ Contains(body, EntityMarker)
    \/ Len(body) <= Threshold

\* the condition of the `if` at line 488
IsTruncated(body) ==
    \/ EndsWith(body, Ellipsis)
    \/ Contains(body, EntityMarker)
    \/ Len(body) < Threshold

-----------------------------------------------------------------------------
(* Dates: datetime.strptime(text, "%Y-%m-%d") *)

IsLeap(y) == (y % 4 = 0 /\ y % 100 /= 0) \/ y % 400 = 0

DaysIn(y, m) ==
    IF m = 2 THEN (IF IsLeap(y) THEN 29 ELSE 28)
    ELSE IF m \in {4, 6, 9, 11} THEN 30 ELSE 31

\* strptime succeeds on the text; otherwise it raises ValueError
Parses(d) ==
    /\ d[1] \in 1..9999
    /\ d[2] \in 1..12
    /\ d[3] \in 1..DaysIn(d[1], d[2])

\* datetime <= datetime
DateLeq(a, b) ==
    \/ a[1] < b[1]
    \/ a[1] = b[1] /\ a[2] < b[2]
    \/ a[1] = b[1] /\ a[2] = b[2] /\ a[3] <= b[3]

\* the default of entry.get('hdate', '1900-01-01')
DefaultDate == <<1900, 1, 1>>

-----------------------------------------------------------------------------
(* The listing call: _make_call and get_hansard *)

\* what the listing request can meet
ListingResponses ==
    {[net |-> "conn_error", status |-> 0, json |-> "none"]}
    \cup [net : {"ok"}, status : {500}, json : {"none"}]
    \cup [net : {"ok"}, status : {200},
          json : {"invalid", "error_dict", "rows_dict", "list", "other_dict", "null"}]

\* _make_call without the test for an 'error' key (lines 78-80)
MakeCallNoErrorCheck(resp, rows) ==
    IF resp.net /= "ok" THEN None
    ELSE IF resp.status \notin 200..299 THEN None
    ELSE IF resp.json = "invalid" THEN None
    ELSE IF resp.json = "null" THEN None
    ELSE Some([kind |-> resp.json,
               rows |-> IF resp.json \in {"rows_dict", "list"} THEN rows ELSE <<>>])

\* _make_call: the parsed JSON, or None after any failure
MakeCall(resp, rows) ==
    IF resp.net /= "ok" THEN None                      \* RequestException
    ELSE IF resp.status \notin 200..299 THEN None      \* raise_for_status
    ELSE IF resp.json = "invalid" THEN None            \* ValueError
    ELSE IF resp.json = "error_dict" THEN None         \* 'error' in data
    ELSE IF resp.json = "null" THEN None               \* response.json() is None
    ELSE Some([kind |-> resp.json,
               rows |-> IF resp.json \in {"rows_dict", "list"} THEN rows ELSE <<>>])

\* the exception raised inside the try block of _make_call, "" for none
ListingException(resp) ==
    IF resp.net /= "ok" THEN "ConnectionError"          \* requests.get, line 63
    ELSE IF resp.status \notin 200..299 THEN "HTTPError" \* raise_for_status, line 72
    ELSE IF resp.json = "invalid" THEN "JSONDecodeError" \* response.json(), line 75
    ELSE ""

\* handlers that leave out `except requests.exceptions.HTTPError`
ListingHandledNoHttp(exc) == exc \in {"JSONDecodeError"}

\* the handlers of lines 84-91: HTTPError, RequestException, ValueError, Exception
ListingHandled(exc) == exc \in {"HTTPError", "ConnectionError", "JSONDecodeError"}

\* how _make_call ends: the exception that leaves it with the status it
\* carries, or the value it returns
MakeCallOutcome(resp, rows) ==
    LET exc == ListingException(resp)
    IN  IF exc /= "" /\ ~ListingHandled(exc)
        THEN [exc |-> exc, status |-> resp.status, val |-> None]
        ELSE [exc |-> "", status |-> 0, val |-> MakeCall(resp, rows)]

\* get_hansard without its `elif isinstance(data, list)` branch
GetHansardRowsOnly(data) ==
    IF data = None THEN None
    ELSE IF data[1].kind = "rows_dict" THEN Some(data[1].rows)
    ELSE None

\* get_debates, lines 255-259: the list, or None
GetDebates(data) ==
    IF data = None THEN None
    ELSE IF data[1].kind = "list" THEN Some(data[1].rows)
    ELSE None

\* get_debates accepting every non-empty type
ValidTypeAnyText(type) == type /= None /\ type[1] /= ""

\* get_debates, lines 234-240: the type passes both checks
ValidType(type) ==
    /\ type /= None /\ type[1] /= ""                    \* not type
    /\ type[1] \in {"representatives", "senate"}

\* get_hansard: the rows, or None
GetHansard(data) ==
    IF data = None THEN None
    ELSE IF data[1].kind = "rows_dict" THEN Some(data[1].rows)
    ELSE IF data[1].kind = "list" THEN Some(data[1].rows)
    ELSE None

-----------------------------------------------------------------------------
(* The date-range filter: get_hansard_by_date_range *)

\* the condition of the list comprehension at line 382
InRange(entry, start, end) ==
    LET d == Get(entry.hdate, DefaultDate)
    IN  DateLeq(start, d) /\ DateLeq(d, end)

RECURSIVE SelectInRange(_, _, _)
SelectInRange(rows, start, end) ==
    IF rows = <<>> THEN <<>>
    ELSE (IF InRange(Head(rows), start, end) THEN <<Head(rows)>> ELSE <<>>)
         \o SelectInRange(Tail(rows), start, end)

\* the list comprehension raises as soon as one hdate fails to parse
ComprehensionRaises(rows) ==
    \E k \in 1..Len(rows) : ~Parses(Get(rows[k].hdate, DefaultDate))

\* variant: every fetched row is kept, whatever its date
FilterKeepsEveryRow(data, start, end) ==
    IF data = None \/ data = Some(<<>>) THEN <<>>
    ELSE IF ComprehensionRaises(data[1]) THEN <<>>
    ELSE data[1]

\* lines 368-389 after get_hansard has returned `data`
FilterByDateRange(data, start, end) ==
    IF data = None \/ data = Some(<<>>) THEN <<>>         \* not hansard_data
    ELSE IF ComprehensionRaises(data[1]) THEN <<>>        \* except Exception
    ELSE SelectInRange(data[1], start, end)

-----------------------------------------------------------------------------
(* URL resolution *)

Amp == <<"&", "a", "m", "p", ";">>

NumHash == <<"&", "#", "3", "5", ";">>

\* html.unescape on texts whose character references are "&amp;" and "&#35;"
RECURSIVE Unescape(_)
Unescape(s) ==
    IF s = <<>> THEN <<>>
    ELSE IF StartsWith(s, Amp)
         THEN <<"&">> \o Unescape(SubSeq(s, Len(Amp) + 1, Len(s)))
    ELSE IF StartsWith(s, NumHash)
         THEN <<"#">> \o Unescape(SubSeq(s, Len(NumHash) + 1, Len(s)))
         ELSE <<Head(s)>> \o Unescape(Tail(s))

\* s.split('#')[0]
BeforeHash(s) ==
    IF \E k \in 1..Len(s) : s[k] = "#"
    THEN LET h == CHOOSE k \in 1..Len(s) :
                      s[k] = "#" /\ \A j \in 1..(k - 1) : s[j] /= "#"
         IN  SubSeq(s, 1, h - 1)
    ELSE s

\* a URL with a scheme and a host of its own
IsAbsoluteUrl(u) ==
    \/ StartsWith(u, <<"h","t","t","p",":","/","/">>) /\ Len(u) > 7
    \/ StartsWith(u, <<"h","t","t","p","s",":","/","/">>) /\ Len(u) > 8

\* urljoin(base origin, u) for a u with no scheme of its own
UrlJoin(base, u) ==
    IF u = <<>> THEN base
    ELSE IF StartsWith(u, <<"/", "/">>) THEN <<"h","t","t","p","s",":">> \o u
    ELSE IF Head(u) = "/" THEN base \o u
    ELSE IF Head(u) \in {"#", "?"} THEN base \o u
    ELSE base \o <<"/">> \o u

\* lines 403-407 with the call of unescape left out
FetchUrlNoUnescape(url) ==
    IF ~StartsWith(BeforeHash(url), Http)
    THEN UrlJoin(BaseOrigin, BeforeHash(url))
    ELSE BeforeHash(url)

\* fetch_full_speech, lines 403-407: the URL requested
FetchUrl(url) ==
    LET unescaped_url == BeforeHash(Unescape(url))
    IN  IF ~StartsWith(unescaped_url, Http)
        THEN UrlJoin(BaseOrigin, unescaped_url)
        ELSE unescaped_url

\* export_speeches_to_csv, lines 470-478: the URL recorded
SourceUrl(listurl) ==
    IF Truthy(listurl)
    THEN LET unescaped_url == Unescape(listurl[1])
         IN  IF ~StartsWith(unescaped_url, Http)
             THEN UrlJoin(BaseOrigin, unescaped_url)
             ELSE unescaped_url
    ELSE NoUrlAvailable

-----------------------------------------------------------------------------
(* The fallback fetcher: fetch_full_speech *)

\* the selectors of lines 421-424, in the order they are tried
Selectors == <<"class=speech", "class=speech_text", "id=speech", "class=debate-body">>

\* soup.find('div', attrs): the first div of the document that matches
Find(page, sel) ==
    LET hits == {k \in 1..Len(page) : sel \in page[k].attrs}
    IN  IF hits = {} THEN None
        ELSE Some(page[CHOOSE k \in hits : \A j \in hits : k <= j])

\* the first div of the document that matches any of the selectors from the
\* k-th on, whichever selector it is
FirstInDocument(page, k) ==
    LET hits == {d \in 1..Len(page) :
                    \E j \in k..Len(Selectors) : Selectors[j] \in page[d].attrs}
    IN  IF hits = {} THEN None
        ELSE Some(page[CHOOSE d \in hits : \A j \in hits : d <= j])

\* the chain of `or` at lines 420-425
RECURSIVE FirstMatch(_, _)
FirstMatch(page, k) ==
    IF k > Len(Selectors) THEN None
    ELSE IF Find(page, Selectors[k]) /= None THEN Find(page, Selectors[k])
    ELSE FirstMatch(page, k + 1)

\* sep.join(strings)
RECURSIVE Join(_, _)
Join(strings, sep) ==
    IF strings = <<>> THEN <<>>
    ELSE IF Len(strings) = 1 THEN strings[1]
    ELSE strings[1] \o sep \o Join(Tail(strings), sep)

\* the text strings of the whole document, in document order
RECURSIVE AllStrings(_)
AllStrings(page) ==
    IF page = <<>> THEN <<>>
    ELSE page[1].strings \o AllStrings(Tail(page))

\* lines 419-437 on a parsed page
ExtractSpeech(page) ==
    LET speech_div == FirstMatch(page, 1)
        full_speech == IF speech_div /= None
                       THEN Strip(Join(speech_div[1].strings, <<"\n">>))
                       ELSE Strip(Join(AllStrings(page), <<" ">>))
    IN  JoinSplit(full_speech)

\* the exception classes the steps of fetch_full_speech can raise
FetchExceptions == {"ConnectionError", "HTTPError", "FeatureNotFound"}

\* a handler naming only requests.exceptions.RequestException
HandledRequestsOnly(exc) == exc \in {"ConnectionError", "HTTPError"}

\* `except Exception` at line 438: every class above derives from Exception
Handled(exc) == exc \in FetchExceptions

\* the body of the try block, lines 402-437: a value or the exception raised
FetchBody(outcome) ==
    IF outcome.net /= "ok" THEN [exc |-> "ConnectionError", val |-> <<>>]
    ELSE IF outcome.status \notin 200..299 THEN [exc |-> "HTTPError", val |-> <<>>]
    ELSE IF ~outcome.parser THEN [exc |-> "FeatureNotFound", val |-> <<>>]
    ELSE [exc |-> "", val |-> ExtractSpeech(outcome.page)]

\* the GET or the parse of its response failed
OutcomeFailed(outcome) ==
    outcome.net /= "ok" \/ outcome.status \notin 200..299 \/ ~outcome.parser

\* fetch_full_speech once the GET has met `outcome`: what the caller sees
FetchFullSpeech(outcome) ==
    LET r == FetchBody(outcome)
    IN  IF r.exc = "" THEN [raised |-> FALSE, val |-> r.val]
        ELSE IF Handled(r.exc) THEN [raised |-> FALSE, val |-> Sentinel]
        ELSE [raised |-> TRUE, val |-> <<>>]

-----------------------------------------------------------------------------
(* The fallback fetcher of test.py: fetch_full_speech, lines 390-448 *)

\* the selectors of test.py, lines 421-428
TestSelectors ==
    Selectors \o <<"class=speech-content", "class=full-speech">>

\* the loop of test.py, lines 430-434: the first selector that finds a div
RECURSIVE TestFirstMatch(_, _)
TestFirstMatch(page, k) ==
    IF k > Len(TestSelectors) THEN None
    ELSE IF Find(page, TestSelectors[k]) /= None THEN Find(page, TestSelectors[k])
    ELSE TestFirstMatch(page, k + 1)

FallbackCap == 100000

\* s[:n]
Take(s, n) == SubSeq(s, 1, IF n < Len(s) THEN n ELSE Len(s))

\* test.py, lines 436-445 on a parsed page
TestExtractSpeech(page) ==
    LET speech_div == TestFirstMatch(page, 1)
    IN  IF speech_div /= None
        THEN Strip(Join(speech_div[1].strings, <<"\n">>))
        ELSE Take(Strip(Join(AllStrings(page), <<"\n">>)), FallbackCap) \o Ellipsis

\* test.py, lines 399-445: a value or the exception raised
TestFetchBody(outcome) ==
    IF outcome.net /= "ok" THEN [exc |-> "ConnectionError", val |-> <<>>]
    ELSE IF outcome.status \notin 200..299 THEN [exc |-> "HTTPError", val |-> <<>>]
    ELSE IF ~outcome.parser THEN [exc |-> "FeatureNotFound", val |-> <<>>]
    ELSE [exc |-> "", val |-> TestExtractSpeech(outcome.page)]

\* test.py, lines 398-448: what the caller sees
TestFetchFullSpeech(outcome) ==
    LET r == TestFetchBody(outcome)
    IN  IF r.exc = "" THEN [raised |-> FALSE, val |-> r.val]
        ELSE [raised |-> FALSE, val |-> Sentinel]          \* except Exception

-----------------------------------------------------------------------------
(* The text normalizer: sanitize_text of speechGather.py and of clean.py.  *)
(* Here a string is the sequence of its Unicode code points.               *)

\* unicodedata.normalize('NFKD', .) on one character: no-break space, one
\* half, e with acute, horizontal ellipsis and the ligature fi decompose;
\* every ASCII character, sharp s (223), the combining acute (769) and the
\* euro sign (8364) are their own decomposition
NfkdChar(c) ==
    CASE c = 160 -> <<32>>
      [] c = 189 -> <<49, 8260, 50>>
      [] c = 233 -> <<101, 769>>
      [] c = 8230 -> <<46, 46, 46>>
      [] c = 64257 -> <<102, 105>>
      [] OTHER -> <<c>>

RECURSIVE Nfkd(_)
Nfkd(text) ==
    IF text = <<>> THEN <<>> ELSE NfkdChar(Head(text)) \o Nfkd(Tail(text))

\* an encoder that keeps every character of Latin-1
EncodeLatin1Ignore(text) == SelectSeq(text, LAMBDA c : c < 256)

\* .encode('ascii', 'ignore').decode('ascii'): characters above 127 are dropped
EncodeAsciiIgnore(text) == SelectSeq(text, LAMBDA c : c < 128)

\* repr(text) in place of str(text): the text between two apostrophes
Repr(text) ==
    IF text = None THEN <<78, 111, 110, 101>> ELSE <<39>> \o text[1] \o <<39>>

\* str(text), clean.py line 9: a string is itself, None is "None"
Str(text) ==
    IF text = None THEN <<78, 111, 110, 101>> ELSE text[1]

\* sanitize_text(text) of the given file; unicodedata.normalize raises
\* TypeError when its argument is not a string
SanitizeText(impl, text) ==
    IF impl = "clean.py"
    THEN [raised |-> FALSE, val |-> EncodeAsciiIgnore(Nfkd(Str(text)))]
    ELSE IF text = None
    THEN [raised |-> TRUE, val |-> <<>>]
    ELSE [raised |-> FALSE, val |-> EncodeAsciiIgnore(Nfkd(text[1]))]

-----------------------------------------------------------------------------
(* Inputs *)

\* an entry of the listing: a JSON object whose keys may be absent
Entry(gid, hdate, body, listurl) ==
    [gid |-> gid, hdate |-> hdate, body |-> body, listurl |-> listurl]

ShortBody ==
    <<"T","h","a","n","k"," ","y","o","u"," ","M","r"," ","S","p","e","a","k",
      "e","r",".",".",".">>

LongBody == Rep("a", Threshold)

RelativeUrl == <<"/","s","#","f">>

AbsoluteUrl == <<"h","t","t","p",":","/","/","x","/","s">>

\* the entry fields the pipeline is run on
PipelineBodies == {None, Some(ShortBody), Some(LongBody)}
PipelineUrls == {None, Some(RelativeUrl), Some(AbsoluteUrl)}
PipelineDates == {Some(ExportStart), Some(ExportEnd), Some(<<2024, 12, 6>>)}

\* listings of n rows; the k-th row has the id k, so ids are pairwise distinct
RowsOf(n, dates, bodies, urls) ==
    {r \in [1..n -> [gid : 1..n, hdate : dates, body : bodies, listurl : urls]] :
        \A k \in 1..n : r[k].gid = k}

PipelineRows ==
    UNION {RowsOf(n, PipelineDates, PipelineBodies, PipelineUrls) : n \in 0..MaxRecords}

\* detail pages: each node is a div with its attributes and text strings
FullRemarks ==
    <<"F","u","l","l"," ","r","e","m","a","r","k","s"," ","o","n"," ","t","h","e"," ","b","u","d","g","e","t"," ","b","i","l","l",".">>

SpeechPage ==
    <<[attrs |-> {"class=nav"}, strings |-> << <<"m","e","n","u">> >>],
      [attrs |-> {"class=speech"},
       strings |-> << <<" ","F","u","l","l"," "," ","r","e","m","a","r","k","s"," ","o","n">>,
                      <<"t","h","e"," ","b","u","d","g","e","t"," ","b","i","l","l",".","\t">> >>]>>

PlainPage ==
    <<[attrs |-> {"class=nav"}, strings |-> << <<"m","e","n","u","\n">>, <<"x">> >>]>>

Pages == {SpeechPage, PlainPage}

\* what the detail-page GET can meet
DetailOutcomes ==
    {[net |-> "conn_error", status |-> 0, parser |-> TRUE, page |-> <<>>],
     [net |-> "ok", status |-> 404, parser |-> TRUE, page |-> <<>>]}
    \cup [net : {"ok"}, status : {200}, parser : {FALSE}, page : {PlainPage}]
    \cup [net : {"ok"}, status : {200}, parser : {TRUE}, page : Pages]

-----------------------------------------------------------------------------
(* The state machine *)

Idle ==
    /\ pc = "start"
    /\ hansard_data = None
    /\ hansard_entries = <<>>
    /\ idx = 0
    /\ pending = None
    /\ speeches = <<>>
    /\ requests = <<>>
    /\ inflight = 0
    /\ fetch_log = <<>>
    /\ trunc_log = <<>>
    /\ raised = FALSE
    /\ listing_resp = None
    /\ made_call = None
    /\ returned = None
    /\ san_log = <<>>
    /\ written = None

\* export_speeches_to_csv is called; line 458 fixes the date range
Init ==
    /\ Idle
    /\ call = [fn |-> "export_speeches_to_csv",
               start_date |-> ExportStart, end_date |-> ExportEnd]
    /\ api_key = "key-A"
    /\ server_page = <<>>
    /\ server_rows \in PipelineRows

\* the functions whose call the model follows
ExportFns == {"export_speeches_to_csv", "test.export_speeches_to_csv"}
RangeFns == {"export_speeches_to_csv", "get_hansard_by_date_range"}

\* the file whose definitions the call runs
Script ==
    IF call.fn \in {"test.export_speeches_to_csv", "test.fetch_full_speech"}
    THEN "test.py" ELSE "speechGather.py"

\* the headers argument of requests.get: the User-Agent, or none at all
Headers == IF Script = "test.py" THEN None ELSE Some(UserAgent)

\* the person each file asks for in its last line
PersonId == "10809"
TestPersonId == "10835"

\* the keyword arguments get_hansard hands to _make_call (lines 337-344)
HansardArgs(person, num) ==
    [search |-> None, person |-> person, order |-> None, page |-> None, num |-> num]

\* the keyword arguments get_debates hands to _make_call (lines 242-253)
DebatesArgs(type) ==
    [type |-> type, date |-> None, search |-> None, person_id |-> None,
     gid |-> None, year |-> None, order |-> None, page |-> None, num |-> None]

\* **kwargs of the _make_call the running call makes
KwArgs ==
    IF call.fn = "export_speeches_to_csv" THEN HansardArgs(Some(PersonId), Some("9999"))
    ELSE IF call.fn = "test.export_speeches_to_csv" THEN HansardArgs(Some(TestPersonId), None)
    ELSE IF call.fn = "get_hansard_by_date_range" THEN HansardArgs(None, None)
    ELSE IF call.fn = "get_hansard" THEN HansardArgs(call.person, call.num)
    ELSE DebatesArgs(call.type)

\* lines 50-56: params = {key, output}, then params.update(kwargs)
Params(kwargs) == kwargs @@ [key |-> Some(api_key), output |-> Some("js")]

ListingRequest ==
    [kind |-> "listing", url |-> <<>>, agent |-> Headers, params |-> Params(KwArgs),
     entry |-> 0]

DetailRequest(url, k) ==
    [kind |-> "detail", url |-> url, agent |-> Headers, params |-> <<>>, entry |-> k]

\* get_hansard_by_date_range, lines 370-371: a bound that fails to parse
\* raises before any request; the handler at 387-389 returns []
BadBounds ==
    /\ pc = "start"
    /\ call.fn \in RangeFns
    /\ ~(Parses(call.start_date) /\ Parses(call.end_date))
    /\ hansard_entries' = <<>>
    /\ pc' = IF call.fn = "export_speeches_to_csv" THEN "loop" ELSE "done"
    /\ UNCHANGED <<call, server_rows, hansard_data, idx, pending, speeches, requests,
                   inflight, fetch_log, trunc_log, raised, client_vars, san_log,
                   server_page, written>>

\* get_debates, lines 234-240: a missing or unknown type ends the call
InvalidType ==
    /\ pc = "start"
    /\ call.fn = "get_debates"
    /\ ~ValidType(call.type)
    /\ returned' = Some(None)
    /\ pc' = "done"
    /\ UNCHANGED <<call, server_rows, hansard_data, hansard_entries, idx, pending,
                   speeches, requests, inflight, fetch_log, trunc_log, raised,
                   api_key, listing_resp, made_call, san_log,
                   server_page, written>>

\* the checks a call makes before it reaches _make_call
MayCall ==
    IF call.fn \in RangeFns THEN Parses(call.start_date) /\ Parses(call.end_date)
    ELSE IF call.fn = "get_debates" THEN ValidType(call.type)
    ELSE TRUE

\* _make_call, line 63: the listing request goes out
IssueListing ==
    /\ pc = "start"
    /\ MayCall
    /\ requests' = Append(requests, ListingRequest)
    /\ inflight' = inflight + 1
    /\ pc' = "listing"
    /\ UNCHANGED <<call, server_rows, hansard_data, hansard_entries, idx, pending, speeches,
                   fetch_log, trunc_log, raised, client_vars, san_log,
                   server_page, written>>

\* what the caller of _make_call does with its outcome `out`:
\* [data, entries, ret, raised, pc] for hansard_data, hansard_entries, returned
AfterMakeCall(out) ==
    IF call.fn \in RangeFns
    THEN \* get_hansard_by_date_range, lines 374-389
         LET data == IF out.exc /= "" THEN None ELSE GetHansard(out.val)
         IN  [data |-> data,
              entries |-> IF out.exc /= "" THEN <<>>
                          ELSE FilterByDateRange(data, call.start_date, call.end_date),
              ret |-> None, raised |-> FALSE,
              pc |-> IF call.fn \in ExportFns THEN "loop" ELSE "done"]
    ELSE IF out.exc /= ""
    THEN [data |-> None, entries |-> <<>>, ret |-> None, raised |-> TRUE, pc |-> "done"]
    ELSE IF call.fn = "test.export_speeches_to_csv"
    THEN \* test.py, lines 466-468
         [data |-> GetHansard(out.val), entries |-> Get(GetHansard(out.val), <<>>),
          ret |-> None, raised |-> FALSE, pc |-> "loop"]
    ELSE IF call.fn = "get_hansard"
    THEN [data |-> GetHansard(out.val), entries |-> <<>>,
          ret |-> Some(GetHansard(out.val)), raised |-> FALSE, pc |-> "done"]
    ELSE [data |-> None, entries |-> <<>>,
          ret |-> Some(GetDebates(out.val)), raised |-> FALSE, pc |-> "done"]

\* the same response handling, but a failed call is tried once more
ListingResponseRetries ==
    /\ pc = "listing"
    /\ \E resp \in ListingResponses :
         /\ listing_resp' = Some(resp)
         /\ made_call' = Some(MakeCallOutcome(resp, server_rows))
    /\ LET after == AfterMakeCall(made_call'[1])
           again == made_call'[1].val = None /\ Len(requests) < 2
       IN  /\ hansard_data' = after.data
           /\ hansard_entries' = after.entries
           /\ returned' = after.ret
           /\ raised' = after.raised
           /\ pc' = IF again THEN "listing" ELSE after.pc
           /\ requests' = IF again THEN Append(requests, ListingRequest) ELSE requests
           /\ inflight' = IF again THEN inflight ELSE inflight - 1
    /\ UNCHANGED <<call, server_rows, idx, pending, speeches,
                   fetch_log, trunc_log, api_key, san_log,
                   server_page, written>>

\* the listing response arrives: _make_call ends (lines 64-93) and its
\* callers run on to their next request or to their return
ListingResponse ==
    /\ pc = "listing"
    /\ \E resp \in ListingResponses :
         /\ listing_resp' = Some(resp)
         /\ made_call' = Some(MakeCallOutcome(resp, server_rows))
    /\ LET after == AfterMakeCall(made_call'[1])
       IN  /\ hansard_data' = after.data
           /\ hansard_entries' = after.entries
           /\ returned' = after.ret
           /\ raised' = after.raised
           /\ pc' = after.pc
    /\ inflight' = inflight - 1
    /\ UNCHANGED <<call, server_rows, idx, pending, speeches, requests,
                   fetch_log, trunc_log, api_key, san_log,
                   server_page, written>>

\* export_speeches_to_csv, lines 460 and 510-511: nothing to export
NoEntries ==
    /\ pc = "loop"
    /\ hansard_entries = <<>>
    /\ pc' = "done"
    /\ UNCHANGED <<call, server_rows, hansard_data, hansard_entries, idx, pending, speeches,
                   requests, inflight, fetch_log, trunc_log, raised, client_vars, san_log,
                   server_page, written>>

\* the entry the loop is at, and the locals of lines 463-467
CurrentEntry == hansard_entries[idx + 1]
\* variant: the placeholder of a missing body is a long clean text
BodyLongDefault(entry) == Get(entry.body, LongBody)

Body(entry) == Get(entry.body, NoContent)

\* lines 488-490 with the truncation test left out
NeedsFetchAnyUrl(entry) == Truthy(entry.listurl)

\* does the iteration call fetch_full_speech (lines 488-490)
NeedsFetch(entry) == IsTruncated(Body(entry)) /\ Truthy(entry.listurl)

\* lines 495-501: the row appended to `speeches`
Speech(entry, full_speech) ==
    [id |-> entry.gid, date |-> entry.hdate,
     url |-> SourceUrl(entry.listurl), text |-> full_speech]

\* lines 481 and 488-493 when fetch_full_speech is not called
DirectTextKeepsBody(entry) == Body(entry)

DirectText(entry) ==
    IF IsTruncated(Body(entry)) THEN Sentinel ELSE Body(entry)

\* lines 491 and 495-501 skipping an entry whose fetch gave the sentinel
AfterFetchSkipsFailed(rows, entry, fetched_speech) ==
    IF fetched_speech = Sentinel THEN rows
    ELSE Append(rows, Speech(entry, fetched_speech))

\* lines 491 and 495-501 without the assignment of line 491
AfterFetchKeepsBody(rows, entry, fetched_speech) ==
    Append(rows, Speech(entry, Body(entry)))

\* lines 491 and 495-501: the fetched text becomes the row's text
AfterFetch(rows, entry, fetched_speech) ==
    Append(rows, Speech(entry, fetched_speech))

\* one iteration of the loop (lines 462-501) that makes no request
LoopDirect ==
    /\ pc = "loop"
    /\ idx < Len(hansard_entries)
    /\ ~NeedsFetch(CurrentEntry)
    /\ speeches' = Append(speeches, Speech(CurrentEntry, DirectText(CurrentEntry)))
    /\ trunc_log' = Append(trunc_log, IsTruncated(Body(CurrentEntry)))
    /\ fetch_log' = Append(fetch_log, None)
    /\ idx' = idx + 1
    /\ UNCHANGED <<pc, call, server_rows, hansard_data, hansard_entries, pending, requests,
                   inflight, raised, client_vars, san_log,
                   server_page, written>>

\* the loop sending the GET and going on without waiting for its response
LoopFetchOverlapping ==
    /\ pc = "loop"
    /\ idx < Len(hansard_entries)
    /\ NeedsFetch(CurrentEntry)
    /\ requests' = Append(requests, DetailRequest(FetchUrl(CurrentEntry.listurl[1]), idx + 1))
    /\ inflight' = inflight + 1
    /\ UNCHANGED <<pc, call, server_rows, hansard_data, hansard_entries, idx, pending,
                   speeches, fetch_log, trunc_log, raised, client_vars, san_log,
                   server_page, written>>

\* an iteration reaches line 490: fetch_full_speech sends its GET (line 413)
LoopFetch ==
    /\ pc = "loop"
    /\ idx < Len(hansard_entries)
    /\ NeedsFetch(CurrentEntry)
    /\ LET full_url == FetchUrl(CurrentEntry.listurl[1])
       IN  /\ requests' = Append(requests, DetailRequest(full_url, idx + 1))
           /\ pending' = Some(full_url)
    /\ inflight' = inflight + 1
    /\ pc' = "fetching"
    /\ UNCHANGED <<call, server_rows, hansard_data, hansard_entries, idx, speeches,
                   fetch_log, trunc_log, raised, client_vars, san_log,
                   server_page, written>>

\* the fetch_full_speech of the file that is run
Fetched(outcome) ==
    IF Script = "test.py" THEN TestFetchFullSpeech(outcome) ELSE FetchFullSpeech(outcome)

\* the GET ends; fetch_full_speech returns and the iteration finishes
FetchResponse ==
    /\ pc = "fetching"
    /\ \E outcome \in DetailOutcomes :
         LET r == Fetched(outcome)
         IN  IF r.raised
             THEN /\ raised' = TRUE
                  /\ pc' = "done"
                  /\ UNCHANGED <<speeches, fetch_log, trunc_log, idx>>
             ELSE /\ speeches' = AfterFetch(speeches, CurrentEntry, r.val)
                  /\ fetch_log' = Append(fetch_log,
                         Some([val |-> r.val, failed |-> OutcomeFailed(outcome)]))
                  /\ trunc_log' = Append(trunc_log, TRUE)
                  /\ idx' = idx + 1
                  /\ pc' = "loop"
                  /\ UNCHANGED raised
    /\ inflight' = inflight - 1
    /\ pending' = None
    /\ UNCHANGED <<call, server_rows, hansard_data, hansard_entries, requests,
                   client_vars, san_log,
                   server_page, written>>

\* lines 503-509: the loop is over and the rows are written out
Export ==
    /\ pc = "loop"
    /\ hansard_entries /= <<>>
    /\ idx = Len(hansard_entries)
    /\ written' = Some(speeches)
    /\ pc' = "done"
    /\ UNCHANGED <<call, server_rows, hansard_data, hansard_entries, idx, pending, speeches,
                   requests, inflight, fetch_log, trunc_log, raised, client_vars, san_log,
                   server_page>>

Next ==
    \/ IssueListing
    \/ ListingResponse
    \/ NoEntries
    \/ LoopDirect
    \/ LoopFetch
    \/ FetchResponse
    \/ Export

Spec == Init /\ [][Next]_vars

-----------------------------------------------------------------------------
(* The truncation heuristic over a wide set of bodies *)

TailChars == {".", "&", "#", " ", "b"}

Tails == UNION {[1..n -> TailChars] : n \in 0..MaxTail}

FillLengths == {0} \cup ((Threshold - MaxTail - LenSpread)..(Threshold + LenSpread))

HeuristicBodies == {Rep("a", n) \o t : n \in FillLengths, t \in Tails}

\* export_speeches_to_csv run on a listing of one row with any such body
InitBody ==
    /\ Idle
    /\ call = [fn |-> "export_speeches_to_csv",
               start_date |-> ExportStart, end_date |-> ExportEnd]
    /\ api_key = "key-A"
    /\ server_page = <<>>
    /\ \E b \in HeuristicBodies, u \in {None, Some(AbsoluteUrl)} :
         server_rows = <<Entry(1, Some(ExportStart), Some(b), u)>>

SpecBody == InitBody /\ [][Next]_vars

-----------------------------------------------------------------------------
(* get_hansard_by_date_range called on its own *)

RangeBounds == {<<1, 1, 1>>, <<2023, 12, 31>>, <<2024, 2, 29>>, <<2024, 2, 30>>, <<2024, 3, 1>>}

RangeDates ==
    {None, Some(<<2023, 12, 31>>), Some(<<2024, 2, 28>>), Some(<<2024, 2, 29>>),
     Some(<<2024, 2, 30>>), Some(<<2024, 3, 1>>)}

RangeRows ==
    UNION {RowsOf(n, RangeDates, {Some(ShortBody)}, {None}) : n \in 0..MaxRangeRows}

InitRange ==
    /\ Idle
    /\ \E s \in RangeBounds, e \in RangeBounds :
         call = [fn |-> "get_hansard_by_date_range", start_date |-> s, end_date |-> e]
    /\ api_key = "key-A"
    /\ server_page = <<>>
    /\ server_rows \in RangeRows

NextRange ==
    \/ BadBounds
    \/ IssueListing
    \/ ListingResponse

SpecRange == InitRange /\ [][NextRange]_vars

-----------------------------------------------------------------------------
(* The pipeline on one truncated entry, over a wide set of detail URLs *)

UrlPaths ==
    {<<>>, <<"s">>, <<"/","s">>, <<"/","/","x","/","s">>,
     <<"h","t","t","p",":","/","/","x","/","s">>,
     <<"h","t","t","p","s",":","/","/","x","/","s">>,
     <<"h","t","t","p","x","/","s">>}

UrlQueries == {<<>>, <<"?","a">> \o Amp \o <<"b">>, NumHash \o <<"e">>}

UrlFragments == {<<>>, <<"#","f">>, <<"#","f","#","g">>}

UrlInputs ==
    {None} \cup {Some(p \o q \o f) : p \in UrlPaths, q \in UrlQueries, f \in UrlFragments}

InitUrl ==
    /\ Idle
    /\ call = [fn |-> "export_speeches_to_csv",
               start_date |-> ExportStart, end_date |-> ExportEnd]
    /\ api_key = "key-A"
    /\ server_page = <<>>
    /\ server_rows \in RowsOf(1, {Some(ExportStart)}, {Some(ShortBody)}, UrlInputs)

SpecUrl == InitUrl /\ [][Next]_vars

-----------------------------------------------------------------------------
(* The client's listing operations called on their own *)

ClientTypes ==
    {None, Some(""), Some("representatives"), Some("senate"), Some("lords"), Some("Senate")}

ClientCalls ==
    [fn : {"get_hansard"}, person : {None, Some(PersonId)}, num : {None, Some("5")}]
    \cup [fn : {"get_debates"}, type : ClientTypes]

ClientRows ==
    UNION {RowsOf(n, {Some(ExportStart)}, {Some(ShortBody)}, {None}) : n \in 0..MaxClientRows}

InitClient ==
    /\ Idle
    /\ call \in ClientCalls
    /\ api_key \in {"key-A", "key-B"}
    /\ server_page = <<>>
    /\ server_rows \in ClientRows

NextClient ==
    \/ InvalidType
    \/ IssueListing
    \/ ListingResponse

SpecClient == InitClient /\ [][NextClient]_vars

-----------------------------------------------------------------------------
(* The export of speechGather.py and the export of test.py *)

ScriptCalls ==
    {[fn |-> "export_speeches_to_csv", start_date |-> ExportStart, end_date |-> ExportEnd],
     [fn |-> "test.export_speeches_to_csv"]}

ScriptRows ==
    UNION {RowsOf(n, {Some(ExportStart), Some(<<2024, 12, 6>>)},
                  {Some(ShortBody), Some(LongBody)}, {None, Some(RelativeUrl)}) :
           n \in 0..MaxScriptRows}

InitScripts ==
    /\ Idle
    /\ call \in ScriptCalls
    /\ api_key \in {"key-A", "key-B"}
    /\ server_page = <<>>
    /\ server_rows \in ScriptRows

SpecScripts == InitScripts /\ [][Next]_vars

-----------------------------------------------------------------------------
(* sanitize_text applied to a text, and again to its own result *)

\* tab, newline, space, a, DEL, no-break space, one half, sharp s, e with
\* acute, combining acute, horizontal ellipsis, euro sign, ligature fi
SanitizeChars == {9, 10, 32, 97, 127, 160, 189, 223, 233, 769, 8230, 8364, 64257}

SanitizeTexts == UNION {[1..n -> SanitizeChars] : n \in 0..MaxTextLen}

SanitizeCalls ==
    [fn : {"sanitize_text"}, impl : {"speechGather.py", "clean.py"},
     text : {None} \cup {Some(t) : t \in SanitizeTexts}]

InitSanitize ==
    /\ Idle
    /\ call \in SanitizeCalls
    /\ api_key = "key-A"
    /\ server_page = <<>>
    /\ server_rows = <<>>

\* one more call of sanitize_text, on the text or on the last result
ApplySanitize ==
    /\ pc = "start"
    /\ call.fn = "sanitize_text"
    /\ ~raised
    /\ Len(san_log) < MaxApplications
    /\ LET arg == IF san_log = <<>> THEN call.text ELSE Some(san_log[Len(san_log)].out)
           r == SanitizeText(call.impl, arg)
       IN  /\ san_log' = Append(san_log, [arg |-> arg, out |-> r.val])
           /\ raised' = r.raised
    /\ UNCHANGED <<pc, call, server_rows, hansard_data, hansard_entries, idx, pending,
                   speeches, requests, inflight, fetch_log, trunc_log, client_vars,
                   server_page, written>>

NextSanitize == ApplySanitize

SpecSanitize == InitSanitize /\ [][NextSanitize]_vars

-----------------------------------------------------------------------------
(* fetch_full_speech called on its own, over a wide set of pages *)

FetchFns == {"fetch_full_speech", "test.fetch_full_speech"}

PageAttrs ==
    {{"class=nav"}, {"class=speech"}, {"class=speech_text"}, {"id=speech"},
     {"class=debate-body"}, {"class=full-speech"}}

\* the text strings of a div: one word, or words among spaces, tabs and newlines
PageStrings ==
    {<< <<"a">> >>,
     << <<" ","b"," "," ","c">>, <<"\t","d","\n","\n","e"," ">> >>}

SmallPages ==
    UNION {[1..n -> [attrs : PageAttrs, strings : PageStrings]] : n \in 1..MaxDivs}

\* a page, packed, whose text is one character longer than the cap of test.py
\* and that has no speech container
LongPage ==
    <<[attrs |-> {"class=nav"},
       strings |-> << <<[ch |-> "a", n |-> FallbackCap + 1]>> >>]>>

\* the pages served, packed
FetchPages == {PackPage(page) : page \in SmallPages} \cup {LongPage}

InitFetch ==
    /\ Idle
    /\ call \in [fn : FetchFns, url : {RelativeUrl, AbsoluteUrl}]
    /\ api_key = "key-A"
    /\ server_rows = <<>>
    /\ server_page \in FetchPages

\* speechGather.py lines 403-413, test.py lines 402-412: the GET goes out
FetchIssue ==
    /\ pc = "start"
    /\ call.fn \in FetchFns
    /\ requests' = Append(requests, DetailRequest(FetchUrl(call.url), 0))
    /\ pending' = Some(FetchUrl(call.url))
    /\ inflight' = inflight + 1
    /\ pc' = "get"
    /\ UNCHANGED <<call, server_rows, hansard_data, hansard_entries, idx, speeches,
                   fetch_log, trunc_log, raised, client_vars, san_log, server_page, written>>

\* what the GET of a call on its own can meet
PageOutcomes ==
    {[net |-> "conn_error", status |-> 0, parser |-> TRUE, page |-> <<>>],
     [net |-> "ok", status |-> 404, parser |-> TRUE, page |-> <<>>],
     [net |-> "ok", status |-> 200, parser |-> FALSE, page |-> UnpackPage(server_page)],
     [net |-> "ok", status |-> 200, parser |-> TRUE, page |-> UnpackPage(server_page)]}

\* the GET ends and fetch_full_speech returns
FetchReturn ==
    /\ pc = "get"
    /\ \E outcome \in PageOutcomes :
         LET r == Fetched(outcome)
         IN  /\ raised' = r.raised
             /\ returned' = IF r.raised THEN None ELSE Some(Pack(r.val))
             /\ fetch_log' = Append(fetch_log,
                    Some([val |-> returned'[1], failed |-> OutcomeFailed(outcome)]))
    /\ inflight' = inflight - 1
    /\ pending' = None
    /\ pc' = "done"
    /\ UNCHANGED <<call, server_rows, hansard_data, hansard_entries, idx, speeches,
                   requests, trunc_log, api_key, listing_resp, made_call, san_log,
                   server_page, written>>

NextFetch ==
    \/ FetchIssue
    \/ FetchReturn

SpecFetch == InitFetch /\ [][NextFetch]_vars

-----------------------------------------------------------------------------
(* A pipeline run that can be stopped: KeyboardInterrupt is no Exception,   *)
(* so neither line 438 nor anything in export_speeches_to_csv catches it.   *)

CancelRows ==
    UNION {RowsOf(n, {Some(ExportStart)}, {Some(ShortBody), Some(LongBody)},
                  {None, Some(RelativeUrl)}) : n \in 0..MaxCancelRows}

InitCancel ==
    /\ Idle
    /\ call = [fn |-> "export_speeches_to_csv",
               start_date |-> ExportStart, end_date |-> ExportEnd]
    /\ api_key = "key-A"
    /\ server_page = <<>>
    /\ server_rows \in CancelRows

\* the run is interrupted inside the loop (lines 462-501), between two
\* entries or while a detail GET is awaited: the exception leaves
\* export_speeches_to_csv, whose lines 503-509 are never reached
Interrupt ==
    /\ pc \in {"loop", "fetching"}
    /\ raised' = TRUE
    /\ inflight' = 0
    /\ pending' = None
    /\ pc' = "done"
    /\ UNCHANGED <<call, server_rows, hansard_data, hansard_entries, idx, speeches,
                   requests, fetch_log, trunc_log, client_vars, san_log,
                   server_page, written>>

NextCancel ==
    \/ Next
    \/ Interrupt

SpecCancel == InitCancel /\ [][NextCancel]_vars

-----------------------------------------------------------------------------
(* Properties of the reconciliation loop *)

\* entries the loop has finished
Finished == 1..Len(trunc_log)

\* a detail-page request was issued for the k-th entry
Requested(k) ==
    \E q \in 1..Len(requests) : requests[q].kind = "detail" /\ requests[q].entry = k

\* C1: the loop emits one row per entry it was handed, the k-th row carrying
\* the id and date of the k-th entry, and no exception ends it early: when it
\* is over there are exactly as many rows as entries, also after failed fetches.
C1_OneRowPerEntry ==
    /\ ~raised
    /\ Len(speeches) = idx
    /\ idx <= Len(hansard_entries)
    /\ \A k \in 1..Len(speeches) :
         /\ speeches[k].id = hansard_entries[k].gid
         /\ speeches[k].date = hansard_entries[k].hdate
    /\ pc = "done" => Len(speeches) = Len(hansard_entries)

\* a run is over in which an entry's fetch failed and a later entry was emitted
C1_Witness ==
    /\ pc = "done"
    /\ \E k \in 1..Len(fetch_log) :
         /\ fetch_log[k] /= None
         /\ fetch_log[k][1].failed
         /\ k < Len(speeches)

\* C2: an entry classified truncated that has a detail URL gets a fallback
\* request, and the text of its row is the string fetch_full_speech returned.
C2_FetchedTextUsed ==
    \A k \in Finished :
        (trunc_log[k] /\ Truthy(hansard_entries[k].listurl)) =>
            /\ Requested(k)
            /\ fetch_log[k] /= None
            /\ speeches[k].text = fetch_log[k][1].val

\* the truncated body "Thank you Mr Speaker..." was replaced by the fetched
\* text "Full remarks on the budget bill."
C2_Witness ==
    \E k \in Finished :
        /\ hansard_entries[k].body = Some(ShortBody)
        /\ Truthy(hansard_entries[k].listurl)
        /\ fetch_log[k] /= None
        /\ ~fetch_log[k][1].failed
        /\ speeches[k].text = FullRemarks

\* C3: an entry classified truncated that has no detail URL gets the sentinel
\* text, and no detail-page request is issued for it.
C3_NoUrlGivesSentinel ==
    \A k \in Finished :
        (trunc_log[k] /\ ~Truthy(hansard_entries[k].listurl)) =>
            /\ speeches[k].text = Sentinel
            /\ ~Requested(k)

\* a truncated entry without URL was emitted after an entry that was fetched
C3_Witness ==
    \E k \in Finished :
        /\ trunc_log[k]
        /\ hansard_entries[k].listurl = None
        /\ speeches[k].text = Sentinel
        /\ \E j \in 1..(k - 1) : Requested(j)

\* a body of 200 characters or more with neither marker
CompleteBody(b) ==
    /\ Len(b) >= Threshold
    /\ ~EndsWith(b, Ellipsis)
    /\ ~Contains(b, EntityMarker)

\* C4: an entry whose body has at least 200 characters, does not end in "..."
\* and holds no "&#" never causes a detail-page request, with or without a
\* detail URL, and the text of its row is the body unchanged.
C4_CompleteBodyNeverFetched ==
    /\ \A q \in 1..Len(requests) :
         requests[q].kind = "detail" =>
             ~CompleteBody(Body(hansard_entries[requests[q].entry]))
    /\ \A k \in Finished :
         CompleteBody(Body(hansard_entries[k])) =>
             /\ fetch_log[k] = None
             /\ speeches[k].text = Body(hansard_entries[k])

\* an entry with a complete body and a detail URL was emitted
C4_Witness ==
    \E k \in Finished :
        /\ CompleteBody(Body(hansard_entries[k]))
        /\ Truthy(hansard_entries[k].listurl)
        /\ speeches[k].text = Body(hansard_entries[k])

-----------------------------------------------------------------------------
(* Properties of the truncation heuristic *)

\* C5 as stated: every body whose length after trimming whitespace is below
\* 200 is classified truncated, also when its untrimmed length is 200 or more.
C5_TrimmedLengthBelowThreshold ==
    \A k \in Finished :
        Len(Strip(Body(hansard_entries[k]))) < Threshold => trunc_log[k]

\* C5 amended: every body whose length as received, without trimming, is below
\* 200 is classified truncated.
C5_RawLengthBelowThreshold ==
    \A k \in Finished :
        Len(Body(hansard_entries[k])) < Threshold => trunc_log[k]

\* a body one character short of the threshold, with neither marker, was
\* classified truncated
C5_Witness ==
    \E k \in Finished :
        /\ Len(Body(hansard_entries[k])) = Threshold - 1
        /\ ~EndsWith(Body(hansard_entries[k]), Ellipsis)
        /\ ~Contains(Body(hansard_entries[k]), EntityMarker)
        /\ trunc_log[k]

\* C6: every body that ends with "..." and every body that holds "&#" is
\* classified truncated, whatever its length.
C6_MarkersMeanTruncated ==
    \A k \in Finished :
        (\/ EndsWith(Body(hansard_entries[k]), Ellipsis)
         \/ Contains(Body(hansard_entries[k]), EntityMarker)) => trunc_log[k]

\* a body longer than the threshold that holds "&#" before its last character
\* was classified truncated
C6_Witness ==
    \E k \in Finished :
        /\ Len(Body(hansard_entries[k])) > Threshold
        /\ Contains(Body(hansard_entries[k]), EntityMarker)
        /\ ~EndsWith(Body(hansard_entries[k]), EntityMarker)
        /\ trunc_log[k]

\* C7: every body of length 200 or more that does not end in "..." and holds
\* no "&#" is classified not truncated.
C7_LongCleanNotTruncated ==
    \A k \in Finished :
        (/\ Len(Body(hansard_entries[k])) >= Threshold
         /\ ~EndsWith(Body(hansard_entries[k]), Ellipsis)
         /\ ~Contains(Body(hansard_entries[k]), EntityMarker)) => ~trunc_log[k]

\* a body of exactly 200 characters ending in ".." was classified not truncated
C7_Witness ==
    \E k \in Finished :
        /\ Len(Body(hansard_entries[k])) = Threshold
        /\ EndsWith(Body(hansard_entries[k]), <<".", ".">>)
        /\ ~trunc_log[k]

-----------------------------------------------------------------------------
(* Properties of the date-range filter *)

\* the call has returned after get_hansard gave rows, both bounds being dates
RangeReturned ==
    /\ pc \notin {"start", "listing"}
    /\ hansard_data /= None
    /\ Parses(call.start_date) /\ Parses(call.end_date)

RECURSIVE Keep(_, _)
Keep(rows, wanted) ==
    IF rows = <<>> THEN <<>>
    ELSE (IF Head(rows).gid \in wanted THEN <<Head(rows)>> ELSE <<>>)
         \o Keep(Tail(rows), wanted)

\* ids of the rows that have a date d with start <= d <= end
DatedInRange(rows) ==
    {rows[k].gid : k \in {j \in 1..Len(rows) :
        LET d == Get(rows[j].hdate, DefaultDate)
        IN  Parses(d) /\ DateLeq(call.start_date, d) /\ DateLeq(d, call.end_date)}}

\* C8: get_hansard_by_date_range returns exactly the fetched rows whose date d
\* satisfies start <= d <= end, both bounds included, in the order fetched.
C8_ExactlyRowsInRange ==
    RangeReturned => hansard_entries = Keep(hansard_data[1], DatedInRange(hansard_data[1]))

EarliestDate == <<1, 1, 1>>

\* ids of the rows in range when a date that fails to parse counts as the
\* earliest date
LenientInRange(rows) ==
    {rows[k].gid : k \in {j \in 1..Len(rows) :
        LET t == Get(rows[j].hdate, DefaultDate)
            d == IF Parses(t) THEN t ELSE EarliestDate
        IN  DateLeq(call.start_date, d) /\ DateLeq(d, call.end_date)}}

\* C9: a row whose date fails to parse is judged against the range as the
\* earliest date; it raises no error and the other rows are filtered normally.
C9_UnparsableDateIsEarliest ==
    RangeReturned => hansard_entries = Keep(hansard_data[1], LenientInRange(hansard_data[1]))

-----------------------------------------------------------------------------
(* Properties of the fallback fetcher *)

\* C10: fetch_full_speech never raises to its caller, and after every failure
\* (network error, non-2xx status, parser error) it returns the sentinel.
C10_FetchNeverRaises ==
    /\ ~raised
    /\ \A k \in 1..Len(fetch_log) :
         (fetch_log[k] /= None /\ fetch_log[k][1].failed) =>
             fetch_log[k][1].val = Sentinel

\* a fetch failed and the loop went on with the sentinel as that row's text
C10_Witness ==
    \E k \in 1..Len(fetch_log) :
        /\ fetch_log[k] /= None
        /\ fetch_log[k][1].failed
        /\ speeches[k].text = Sentinel
        /\ pc = "loop"

-----------------------------------------------------------------------------
(* Properties of URL resolution *)

\* the detail URL the listing gave for the entry a request was made for
InputOf(q) == hansard_entries[requests[q].entry].listurl[1]

DetailRequests == {q \in 1..Len(requests) : requests[q].kind = "detail"}

\* C11: whenever the detail URL of an entry is relative, the URL the fetcher
\* requests is absolute, begins with the base origin and has no fragment.
C11_RelativeResolvesUnderBase ==
    \A q \in DetailRequests :
        ~IsAbsoluteUrl(InputOf(q)) =>
            /\ IsAbsoluteUrl(requests[q].url)
            /\ StartsWith(requests[q].url, BaseOrigin)
            /\ ~Contains(requests[q].url, <<"#">>)

-----------------------------------------------------------------------------
(* Properties of the listing client *)

\* the listing response has arrived; Resp is the response
Answered == listing_resp /= None
Resp == listing_resp[1]
Outcome == made_call[1]

Non2xx == Answered /\ Resp.net = "ok" /\ Resp.status \notin 200..299

\* C12 as stated: after a non-2xx listing response an HTTP error carrying the
\* status leaves the client for its caller, and the pipeline emits no record.
C12_Non2xxSurfacesTransportError ==
    Non2xx =>
        /\ Outcome.exc = "HTTPError"
        /\ Outcome.status = Resp.status
        /\ speeches = <<>>

\* C12 amended: after a non-2xx listing response _make_call returns None and
\* no exception leaves it; the pipeline gets no entries and emits no record.
C12_Non2xxGivesNoneAndNoRecords ==
    Non2xx =>
        /\ Outcome.exc = ""
        /\ Outcome.val = None
        /\ ~raised
        /\ hansard_data = None
        /\ hansard_entries = <<>>
        /\ speeches = <<>>

\* the pipeline is over after a 500 although the server had rows to list
C12_Witness ==
    /\ pc = "done"
    /\ Non2xx
    /\ Resp.status = 500
    /\ server_rows /= <<>>
    /\ speeches = <<>>

ErrorPayload ==
    Answered /\ Resp.net = "ok" /\ Resp.status \in 200..299 /\ Resp.json = "error_dict"

\* C13 as stated: a JSON object with an error field makes the client report an
\* ApiError to its caller.
C13_ErrorFieldSurfacesApiError ==
    ErrorPayload => Outcome.exc = "ApiError"

\* C13 amended: a JSON object with an error field makes _make_call return None
\* with no exception, exactly the outcome of a call that met HTTP 500, and
\* get_hansard hands None on.
C13_ErrorFieldGivesNone ==
    ErrorPayload =>
        /\ Outcome.exc = ""
        /\ Outcome.val = None
        /\ Outcome = MakeCallOutcome([net |-> "ok", status |-> 500, json |-> "none"],
                                     server_rows)
        /\ call.fn = "get_hansard" => returned = Some(None)

\* get_hansard has returned None for an error payload although rows exist
C13_Witness ==
    /\ pc = "done"
    /\ ErrorPayload
    /\ call.fn = "get_hansard"
    /\ server_rows /= <<>>
    /\ returned = Some(None)

\* a parsed 2xx response of the given shape has come back to get_hansard
Shape(kinds) ==
    /\ pc = "done" /\ call.fn = "get_hansard" /\ Answered
    /\ Resp.net = "ok" /\ Resp.status \in 200..299 /\ Resp.json \in kinds

\* C14 as stated: get_hansard returns the rows of an object with rows, a bare
\* array itself, and an empty sequence for any other successful shape.
C14_OtherShapeGivesEmptySequence ==
    /\ Shape({"rows_dict", "list"}) => returned = Some(Some(server_rows))
    /\ Shape({"other_dict", "null"}) => returned = Some(Some(<<>>))

\* C14 amended: get_hansard returns the rows of an object with rows, a bare
\* array itself, and None for any other successful shape.
C14_OtherShapeGivesNone ==
    /\ Shape({"rows_dict", "list"}) => returned = Some(Some(server_rows))
    /\ Shape({"other_dict", "null"}) => returned = Some(None)

\* get_hansard has returned None for a JSON object that has no rows field
C14_Witness ==
    /\ Shape({"other_dict"})
    /\ Len(server_rows) = 1
    /\ returned = Some(None)

AllowedTypes == {Some("representatives"), Some("senate")}

\* C15: get_debates with no type or a type outside the two allowed values
\* ends with the failure value None and without any request; a request goes
\* out only for an allowed type.
C15_InvalidTypeMakesNoRequest ==
    call.fn = "get_debates" =>
        /\ call.type \notin AllowedTypes =>
              /\ requests = <<>>
              /\ pc /= "listing"
              /\ ~raised
              /\ pc = "done" => returned = Some(None)
        /\ requests /= <<>> => call.type \in AllowedTypes

\* get_debates(type="lords") has returned None and nothing was requested
C15_Witness ==
    /\ pc = "done"
    /\ call.fn = "get_debates"
    /\ call.type = Some("lords")
    /\ returned = Some(None)
    /\ requests = <<>>

ListingRequests == {q \in 1..Len(requests) : requests[q].kind = "listing"}

\* C16: a listing operation issues at most one request; when the request
\* failed, the call is over with that single request.
C16_AtMostOneListingRequest ==
    /\ Cardinality(ListingRequests) <= 1
    /\ (Answered /\ Outcome.val = None) =>
          /\ pc = "done"
          /\ Len(requests) = 1

\* a call whose request met HTTP 500 is over after that one request
C16_Witness ==
    /\ pc = "done"
    /\ Non2xx
    /\ Len(requests) = 1

\* C17: every request, listing or detail, carries the one User-Agent header,
\* and every listing request carries the API key given at construction.
C17_EveryRequestIdentified ==
    \A q \in 1..Len(requests) :
        /\ requests[q].agent = Some(UserAgent)
        /\ requests[q].kind = "listing" => requests[q].params.key = Some(api_key)

\* C18: the URL of every emitted row is the marker "No URL available" exactly
\* when the entry has no detail URL, and is an absolute URL otherwise.
C18_SourceUrlAbsoluteOrMarker ==
    \A k \in 1..Len(speeches) :
        LET listurl == hansard_entries[k].listurl
        IN  /\ speeches[k].url = NoUrlAvailable <=> ~Truthy(listurl)
            /\ Truthy(listurl) => IsAbsoluteUrl(speeches[k].url)

-----------------------------------------------------------------------------
(* Properties of the text normalizer *)

\* the calls of sanitize_text that returned
Sanitized == {k \in 1..Len(san_log) : ~(raised /\ k = Len(san_log))}

\* C19: sanitize_text applied to its own result gives that result again.
C19_SanitizeIdempotent ==
    \A k \in Sanitized : k > 1 => san_log[k].out = san_log[k - 1].out

\* a text with a character that decomposes or is dropped was sanitized
\* twice, and the second call changed nothing
C19_Witness ==
    /\ Len(san_log) = 2
    /\ ~raised
    /\ san_log[1].out /= san_log[1].arg[1]
    /\ san_log[1].out /= <<>>
    /\ san_log[2].out = san_log[1].out

Chars(text) == {text[k] : k \in 1..Len(text)}

\* C20 as stated: on a string sanitize_text does not raise, and only
\* printable ASCII characters (32 to 126) are left in its result.
C20_OnlyPrintableAscii ==
    \A k \in 1..Len(san_log) :
        san_log[k].arg /= None =>
            /\ ~(raised /\ k = Len(san_log))
            /\ Chars(san_log[k].out) \subseteq 32..126

\* C20 amended: on a string sanitize_text does not raise and leaves only ASCII
\* characters (0 to 127), control characters among them: a text of ASCII
\* characters comes back unchanged.
C20_OnlyAsciiControlsKept ==
    \A k \in 1..Len(san_log) :
        san_log[k].arg /= None =>
            /\ ~(raised /\ k = Len(san_log))
            /\ Chars(san_log[k].out) \subseteq 0..127
            /\ Chars(san_log[k].arg[1]) \subseteq 0..127 => san_log[k].out = san_log[k].arg[1]

\* a tab followed by a euro sign came back as the tab alone
C20_Witness ==
    /\ san_log /= <<>>
    /\ san_log[1].arg = Some(<<9, 8364>>)
    /\ san_log[1].out = <<9>>

-----------------------------------------------------------------------------
(* Properties of the extraction in fetch_full_speech *)

\* fetch_full_speech has returned after a GET that succeeded and parsed
PageFetched ==
    /\ pc = "done" /\ call.fn \in FetchFns
    /\ fetch_log /= <<>> /\ ~fetch_log[1][1].failed

SelectorsTried == IF Script = "test.py" THEN TestSelectors ELSE Selectors

\* the divs of the served page, by position, that the k-th selector matches
Matching(k) == {d \in 1..Len(server_page) : SelectorsTried[k] \in server_page[d].attrs}

\* the text fetch_full_speech returned
ReturnedText == Unpack(returned[1])

SomeSelectorMatches == \E k \in 1..Len(SelectorsTried) : Matching(k) /= {}

\* the earliest selector in the list that matches anywhere, and the first
\* div of the document it matches
EarliestSelector ==
    CHOOSE k \in 1..Len(SelectorsTried) :
        Matching(k) /= {} /\ \A j \in 1..(k - 1) : Matching(j) = {}

EarliestContainer ==
    UnpackPage(server_page)[CHOOSE d \in Matching(EarliestSelector) :
                    \A j \in Matching(EarliestSelector) : d <= j]

\* the text the running file takes from a container div
ContainerText(div) ==
    IF Script = "test.py" THEN Strip(Join(div.strings, <<"\n">>))
    ELSE JoinSplit(Join(div.strings, <<"\n">>))

\* C21: when some selector matches, the text returned comes from the div of
\* the earliest matching selector of the list, wherever the divs of later
\* selectors stand in the document.
C21_EarliestSelectorWins ==
    (PageFetched /\ SomeSelectorMatches) =>
        ReturnedText = ContainerText(EarliestContainer)

\* the page has a div.debate-body before a div.speech with another text, and
\* the text of the div.speech was returned
C21_Witness ==
    /\ PageFetched
    /\ call.fn = "fetch_full_speech"
    /\ Len(server_page) = 2
    /\ server_page[1].attrs = {"class=debate-body"}
    /\ server_page[1].strings = << Pack(<<"a">>) >>
    /\ server_page[2].attrs = {"class=speech"}
    /\ ReturnedText = <<"b"," ","c"," ","d"," ","e">>

\* C22: when no selector matches, the string returned is at most as long as
\* the cap of 100,000 characters.
C22_WholeDocumentTextCapped ==
    (PageFetched /\ ~SomeSelectorMatches) => Len(ReturnedText) <= FallbackCap

\* no whitespace at either end, and every whitespace character is a single
\* space standing between two words
Normalized(t) ==
    /\ t /= <<>> => (t[1] \notin Whitespace /\ t[Len(t)] \notin Whitespace)
    /\ \A k \in 1..Len(t) :
          t[k] \in Whitespace => (t[k] = " " /\ k < Len(t) /\ t[k + 1] \notin Whitespace)

\* C23: every string fetch_full_speech returns from a page it fetched and
\* parsed is whitespace-normalized, whether a container matched or not.
C23_ReturnedTextNormalized ==
    PageFetched => Normalized(ReturnedText)

-----------------------------------------------------------------------------
(* Properties of a pipeline run *)

\* C24: a run issues one listing request, which is answered before any detail
\* request goes out; detail requests follow the order of the entries, at most
\* one per entry and only for a truncated entry with a detail URL; never are
\* two requests in flight.
C24_StrictlySequential ==
    /\ inflight \in {0, 1}
    /\ inflight = 1 <=> pc \in {"listing", "fetching"}
    /\ pc /= "start" => (requests /= <<>> /\ ListingRequests = {1})
    /\ DetailRequests /= {} => listing_resp /= None
    /\ \A q \in DetailRequests :
          LET entry == hansard_entries[requests[q].entry]
          IN  /\ IsTruncated(Body(entry))
              /\ Truthy(entry.listurl)
              /\ requests[q].entry <= idx + 1
    /\ \A q1, q2 \in DetailRequests : q1 < q2 => requests[q1].entry < requests[q2].entry

\* a run is over that made the listing request and then one detail request
\* for the first and one for the second entry
C24_Witness ==
    /\ pc = "done"
    /\ Len(requests) = 3
    /\ requests[2].entry = 1
    /\ requests[3].entry = 2
    /\ inflight = 0

-----------------------------------------------------------------------------
(* Properties of the recorded source URL *)

\* the emitted rows whose entry has a detail URL and was fetched
FetchedRows == {k \in 1..Len(speeches) : Truthy(hansard_entries[k].listurl) /\ Requested(k)}

\* the URL requested for the k-th entry
RequestedUrl(k) ==
    requests[CHOOSE q \in DetailRequests : requests[q].entry = k].url

-----------------------------------------------------------------------------
(* Properties of a run that is stopped *)

\* C26: when a run is stopped by an exception after k rows were produced,
\* those k rows have reached the output file.
C26_PartialRowsSurviveStop ==
    (pc = "done" /\ raised /\ Len(speeches) >= 1) => written = Some(speeches)

-----------------------------------------------------------------------------
(* Properties of the date filter inside the pipeline *)

OutOfRangeRows ==
    {r \in 1..Len(server_rows) :
        ~InRange(server_rows[r], call.start_date, call.end_date)}

\* C27: a row of the listing whose date lies outside the requested range is
\* never handed to the loop: no detail request is issued for it, however
\* short its body, and no output row carries its id.
C27_OutOfRangeNeverReconciled ==
    \A r \in OutOfRangeRows :
        /\ \A k \in 1..Len(hansard_entries) : hansard_entries[k].gid /= server_rows[r].gid
        /\ \A q \in DetailRequests :
               hansard_entries[requests[q].entry].gid /= server_rows[r].gid
        /\ \A k \in 1..Len(speeches) : speeches[k].id /= server_rows[r].gid
        /\ written /= None =>
               \A k \in 1..Len(written[1]) : written[1][k].id /= server_rows[r].gid

\* a finished run whose listing held a truncated out-of-range row with a
\* detail URL next to an in-range row that was fetched and written
C27_Witness ==
    /\ pc = "done"
    /\ written /= None
    /\ \E r \in OutOfRangeRows :
          /\ IsTruncated(Body(server_rows[r]))
          /\ Truthy(server_rows[r].listurl)
    /\ \E k \in 1..Len(written[1]) : Requested(k)

-----------------------------------------------------------------------------
(* Properties of an entry without body *)

NoBody == {k \in Finished : hansard_entries[k].body = None}

\* C28: an entry without body field is always classified truncated and its
\* placeholder "No content" is never what the row's text is taken from: with
\* a detail URL the text is what fetch_full_speech returned for that entry,
\* without one it is "Unable to retrieve full speech.".
C28_MissingBodyIsTruncated ==
    \A k \in NoBody :
        /\ IsTruncated(NoContent)
        /\ trunc_log[k]
        /\ IF Truthy(hansard_entries[k].listurl)
           THEN /\ Requested(k)
                /\ fetch_log[k] /= None
                /\ speeches[k].text = fetch_log[k][1].val
           ELSE /\ ~Requested(k)
                /\ fetch_log[k] = None
                /\ speeches[k].text = Sentinel
                /\ speeches[k].text /= NoContent

\* a written run with one entry without body and without URL and another
\* without body whose text was fetched from its detail page
C28_Witness ==
    /\ written /= None
    /\ \E k \in NoBody :
          /\ hansard_entries[k].listurl = None
          /\ written[1][k].text = Sentinel
    /\ \E k \in NoBody :
          /\ Truthy(hansard_entries[k].listurl)
          /\ ~fetch_log[k][1].failed
          /\ written[1][k].text = fetch_log[k][1].val

=============================================================================
